---- MODULE Spec2Model ----
(***************************************************************************)
(* Model of ardunno-cli-gen's generation driver (src/src/generate.ts):     *)
(* the default export generate(), the locator parsers parseSemver and      *)
(* parseGitHub, the version policy protoLocation, and the two acquirers    *)
(* clone and download with their disposable handles.                       *)
(*                                                                         *)
(* Strings are sequences of atoms.  A string that comes from the user      *)
(* (src, a version, a commit) is a sequence of one-character atoms; a      *)
(* literal of a template string of the code is one atom.                   *)
(***************************************************************************)
EXTENDS Integers, Sequences, FiniteSets, TLC

VARIABLES
    src,        \* options.src
    env,        \* process.env.https_proxy
    force,      \* options.force
    outFs,      \* what the path options.out is on disk: "missing", "dir", "file"
    srcProtos,  \* what globby finds under src: Absent or a list of files
    pc,         \* position of the run
    accessDone, \* fs.access(out) of the Promise.all has settled
    globDone,   \* globProtos(src) of the Promise.all has settled
    outExists,  \* result of the access check
    protos,     \* result of globProtos(src)
    locator,    \* semverOrGitHub of the driver, once src was parsed
    stack,      \* frames of download(), innermost last
    cl,         \* frame of clone()
    handle,     \* the { protoPath, dispose } the driver holds
    gen,        \* arguments of the running generate(src, protos, out)
    tmp,        \* temporary directories that exist on disk
    nTmp,       \* number of temporary directories created so far
    pending,    \* rimraf calls that were started and not awaited
    primary,    \* outcome of the try block, kept while finally runs
    result,     \* how the promise of generate() settled
    trace,      \* external operations performed, in order
    call        \* last application of a pure function (parsers, version policy)

vars == <<src, env, force, outFs, srcProtos, pc, accessDone, globDone, outExists,
          protos, locator, stack, cl, handle, gen, tmp, nTmp, pending, primary, result,
          trace, call>>

runVars == <<force, outFs, srcProtos, pc, accessDone, globDone, outExists,
             protos, locator, stack, cl, handle, gen, tmp, nTmp, pending, primary, result,
             trace>>

-----------------------------------------------------------------------------
(* Characters and strings *)

Digit == {"0", "1", "2", "3", "4", "5", "6", "7", "8", "9"}

Lower == {"a", "b", "c", "d", "e", "f", "g", "h", "i", "j", "k", "l", "m",
          "n", "o", "p", "q", "r", "s", "t", "u", "v", "w", "x", "y", "z"}

Upper == {"A", "B", "C", "D", "E", "F", "G", "H", "I", "J", "K", "L", "M",
          "N", "O", "P", "Q", "R", "S", "T", "U", "V", "W", "X", "Y", "Z"}

Letter == Lower \cup Upper

\* \s of a JavaScript regular expression, and what String.prototype.trim strips
Space == {" ", "\t", "\n"}

\* UTF-16 code unit of a character, for the < of JavaScript strings
LowerSeq == <<"a", "b", "c", "d", "e", "f", "g", "h", "i", "j", "k", "l", "m",
              "n", "o", "p", "q", "r", "s", "t", "u", "v", "w", "x", "y", "z">>

UpperSeq == <<"A", "B", "C", "D", "E", "F", "G", "H", "I", "J", "K", "L", "M",
              "N", "O", "P", "Q", "R", "S", "T", "U", "V", "W", "X", "Y", "Z">>

DigitSeq == <<"0", "1", "2", "3", "4", "5", "6", "7", "8", "9">>

PosIn(c, s) == CHOOSE i \in 1..Len(s) : s[i] = c

CharCode(c) ==
    IF c \in Digit THEN 47 + PosIn(c, DigitSeq)
    ELSE IF c \in Upper THEN 64 + PosIn(c, UpperSeq)
    ELSE IF c \in Lower THEN 96 + PosIn(c, LowerSeq)
    ELSE IF c = "-" THEN 45
    ELSE IF c = "." THEN 46
    ELSE IF c = "_" THEN 95
    ELSE IF c = "+" THEN 43
    ELSE IF c = "#" THEN 35
    ELSE IF c = "/" THEN 47
    ELSE IF c = "=" THEN 61
    ELSE 32

\* index of the first c in s, 0 when there is none
IndexOf(s, c) ==
    IF \E i \in 1..Len(s) : s[i] = c
    THEN CHOOSE i \in 1..Len(s) : s[i] = c /\ \A j \in 1..(i - 1) : s[j] # c
    ELSE 0

RECURSIVE Split(_, _)
\* String.prototype.split on a one-character separator
Split(s, c) ==
    IF IndexOf(s, c) = 0 THEN <<s>>
    ELSE <<SubSeq(s, 1, IndexOf(s, c) - 1)>>
         \o Split(SubSeq(s, IndexOf(s, c) + 1, Len(s)), c)

RECURSIVE Join(_, _)
\* Array.prototype.join of a list of strings
Join(parts, sep) ==
    IF Len(parts) = 0 THEN <<>>
    ELSE IF Len(parts) = 1 THEN parts[1]
    ELSE parts[1] \o sep \o Join(Tail(parts), sep)

RECURSIVE TrimStart(_)
TrimStart(s) == IF Len(s) > 0 /\ s[1] \in Space THEN TrimStart(Tail(s)) ELSE s

RECURSIVE TrimEnd(_)
TrimEnd(s) ==
    IF Len(s) > 0 /\ s[Len(s)] \in Space THEN TrimEnd(SubSeq(s, 1, Len(s) - 1)) ELSE s

Trim(s) == TrimEnd(TrimStart(s))

AllIn(s, S) == \A i \in 1..Len(s) : s[i] \in S

RECURSIVE ToNumber(_)
\* +s of a string of decimal digits
ToNumber(s) ==
    IF Len(s) = 0 THEN 0
    ELSE 10 * ToNumber(SubSeq(s, 1, Len(s) - 1)) + (PosIn(s[Len(s)], DigitSeq) - 1)

RECURSIVE NumToString(_)
\* String(n) of a natural number
NumToString(n) ==
    IF n < 10 THEN <<DigitSeq[n + 1]>>
    ELSE NumToString(n \div 10) \o <<DigitSeq[(n % 10) + 1]>>

\* a < b of two JavaScript strings: -1, 0, 1
RECURSIVE StrCompare(_, _)
StrCompare(a, b) ==
    IF Len(a) = 0 /\ Len(b) = 0 THEN 0
    ELSE IF Len(a) = 0 THEN -1
    ELSE IF Len(b) = 0 THEN 1
    ELSE IF CharCode(a[1]) < CharCode(b[1]) THEN -1
    ELSE IF CharCode(a[1]) > CharCode(b[1]) THEN 1
    ELSE StrCompare(Tail(a), Tail(b))

-----------------------------------------------------------------------------
(* The semver package, as generate.ts uses it: valid, new SemVer, gte *)

IdChar == Digit \cup Letter \cup {"-"}

\* NUMERICIDENTIFIER  0|[1-9]\d*
IsNumericIdentifier(s) ==
    Len(s) > 0 /\ AllIn(s, Digit) /\ (Len(s) = 1 \/ s[1] # "0")

\* NUMERICIDENTIFIERLOOSE  \d+
IsNumericIdentifierLoose(s) == Len(s) > 0 /\ AllIn(s, Digit)

\* NONNUMERICIDENTIFIER  \d*[a-zA-Z-][a-zA-Z0-9-]*
IsNonNumericIdentifier(s) ==
    Len(s) > 0 /\ AllIn(s, IdChar) /\ ~AllIn(s, Digit)

\* PRERELEASEIDENTIFIER and PRERELEASEIDENTIFIERLOOSE
IsPrereleaseIdentifier(s, loose) ==
    \/ IsNonNumericIdentifier(s)
    \/ IF loose THEN IsNumericIdentifierLoose(s) ELSE IsNumericIdentifier(s)

\* BUILDIDENTIFIER  [0-9A-Za-z-]+
IsBuildIdentifier(s) == Len(s) > 0 /\ AllIn(s, IdChar)

\* identifiers separated by dots: the body of PRERELEASE and of BUILD
AllPrereleaseIdentifiers(ids, loose) ==
    \A i \in 1..Len(ids) : IsPrereleaseIdentifier(ids[i], loose)

IsPrerelease(s, loose) == AllPrereleaseIdentifiers(Split(s, "."), loose)

AllBuildIdentifiers(ids) == \A i \in 1..Len(ids) : IsBuildIdentifier(ids[i])

IsBuild(s) == AllBuildIdentifiers(Split(s, "."))

NoMatch == [ok |-> FALSE]

\* what follows the patch digits, split at the first '+': (prerelease part, BUILD?)
CutAt(s, i) == IF i = 0 THEN s ELSE SubSeq(s, 1, i - 1)

BeforePlus(s) == CutAt(s, IndexOf(s, "+"))

AfterOrNone(s, i) == IF i = 0 THEN <<>> ELSE SubSeq(s, i + 1, Len(s))

BuildOkAt(s, i) == i = 0 \/ IsBuild(SubSeq(s, i + 1, Len(s)))

BuildOk(s) == BuildOkAt(s, IndexOf(s, "+"))

StripV(t) == IF Len(t) > 0 /\ t[1] = "v" THEN Tail(t) ELSE t

FullResult(u, dash, parts, pre) ==
    IF /\ Len(parts) = 3
       /\ \A i \in 1..3 : IsNumericIdentifier(parts[i])
       /\ (dash = 0 \/ IsPrerelease(pre, FALSE))
       /\ BuildOk(u)
    THEN [ok |-> TRUE, major |-> parts[1], minor |-> parts[2],
          patch |-> parts[3], pre |-> pre]
    ELSE NoMatch

FullSplit(u, head, dash) ==
    FullResult(u, dash, Split(CutAt(head, dash), "."), AfterOrNone(head, dash))

FullHead(u, head) == FullSplit(u, head, IndexOf(head, "-"))

FullBody(u) == FullHead(u, BeforePlus(u))

\* re[t.FULL]: ^v?MAIN(-PRERELEASE)?(\+BUILD)?$ on the trimmed string.  No part
\* but BUILD holds a '+', and MAIN holds no '-': BUILD starts at the first '+',
\* PRERELEASE at the first '-' before it.
MatchFull(t) == FullBody(StripV(t))

\* number of leading characters of s that are in S
RECURSIVE LeadingIn(_, _)
LeadingIn(s, S) ==
    IF Len(s) > 0 /\ s[1] \in S THEN 1 + LeadingIn(Tail(s), S) ELSE 0

\* the three ways the tail x after the patch digits matches
\* (?:-?(PRERELEASELOOSE))?(\+BUILD)?$, in the order the regular expression tries
\* them: the '-' taken, the '-' left to the prerelease, no prerelease group
LooseTry(x, o) ==
    IF o = 1 THEN Len(x) > 0 /\ x[1] = "-" /\ BuildOk(x)
                  /\ IsPrerelease(BeforePlus(Tail(x)), TRUE)
    ELSE IF o = 2 THEN BuildOk(x) /\ IsPrerelease(BeforePlus(x), TRUE)
    ELSE BuildOk(x) /\ BeforePlus(x) = <<>>

LoosePre(x, o) ==
    IF o = 1 THEN BeforePlus(Tail(x)) ELSE IF o = 2 THEN BeforePlus(x) ELSE <<>>

\* (patch length, way) pairs that match; the patch digits are greedy and are
\* given back one by one
LooseCands(r, run) ==
    {c \in (1..run) \X (1..3) : LooseTry(SubSeq(r, c[1] + 1, Len(r)), c[2])}

LooseRank(c, run) == (run - c[1]) * 3 + c[2]

LooseBest(cands, run) ==
    CHOOSE c \in cands : \A d \in cands : LooseRank(c, run) <= LooseRank(d, run)

LooseResult(major, minor, r, best) ==
    [ok |-> TRUE, major |-> major, minor |-> minor, patch |-> SubSeq(r, 1, best[1]),
     pre |-> LoosePre(SubSeq(r, best[1] + 1, Len(r)), best[2])]

LooseChoose(major, minor, r, cands, run) ==
    IF cands = {} THEN NoMatch ELSE LooseResult(major, minor, r, LooseBest(cands, run))

LooseTail(major, minor, r, run) ==
    LooseChoose(major, minor, r, LooseCands(r, run), run)

LooseMinorAt(major, u2, d2) ==
    IF d2 > 1 /\ AllIn(SubSeq(u2, 1, d2 - 1), Digit)
    THEN LooseTail(major, SubSeq(u2, 1, d2 - 1), SubSeq(u2, d2 + 1, Len(u2)),
                   LeadingIn(SubSeq(u2, d2 + 1, Len(u2)), Digit))
    ELSE NoMatch

LooseMajorAt(u, d1) ==
    IF d1 > 1 /\ AllIn(SubSeq(u, 1, d1 - 1), Digit)
    THEN LooseMinorAt(SubSeq(u, 1, d1 - 1), SubSeq(u, d1 + 1, Len(u)),
                      IndexOf(SubSeq(u, d1 + 1, Len(u)), "."))
    ELSE NoMatch

LooseBody(u) == LooseMajorAt(u, IndexOf(u, "."))

\* re[t.LOOSE]: ^[v=\s]*(\d+)\.(\d+)\.(\d+)(?:-?(PRERELEASELOOSE))?(\+BUILD)?$
MatchLoose(t) ==
    LooseBody(SubSeq(t, LeadingIn(t, {"v", "="} \cup Space) + 1, Len(t)))

\* a prerelease identifier as the constructor stores it: a number when it is all
\* digits, the string otherwise
PreId(s) ==
    IF AllIn(s, Digit) THEN [isNum |-> TRUE, n |-> ToNumber(s), s |-> <<>>]
    ELSE [isNum |-> FALSE, n |-> 0, s |-> s]

PreIdString(id) == IF id.isNum THEN NumToString(id.n) ELSE id.s

\* SemVer.prototype.format: major.minor.patch, then -prerelease joined by dots
Format(major, minor, patch, prerelease) ==
    NumToString(major) \o <<".">> \o NumToString(minor) \o <<".">> \o NumToString(patch)
    \o (IF Len(prerelease) = 0 THEN <<>>
        ELSE <<"-">> \o Join([i \in 1..Len(prerelease) |-> PreIdString(prerelease[i])],
                             <<".">>))

PreIds(ids) == [i \in 1..Len(ids) |-> PreId(ids[i])]

SemVerOf(version, loose, major, minor, patch, prerelease) ==
    [threw |-> FALSE, raw |-> version, loose |-> loose, major |-> major,
     minor |-> minor, patch |-> patch, prerelease |-> prerelease,
     version |-> Format(major, minor, patch, prerelease)]

Construct(version, loose, m) ==
    IF ~m.ok THEN [threw |-> TRUE]
    ELSE SemVerOf(version, loose, ToNumber(m.major), ToNumber(m.minor),
                  ToNumber(m.patch),
                  PreIds(IF Len(m.pre) = 0 THEN <<>> ELSE Split(m.pre, ".")))

MatchVersion(t, loose) == IF loose THEN MatchLoose(t) ELSE MatchFull(t)

\* new SemVer(version, { loose }) of a string; threw = TRUE for the TypeError
NewSemVer(version, loose) == Construct(version, loose, MatchVersion(Trim(version), loose))

\* new SemVer(semver, { loose }) of a SemVer object: the object itself when the
\* flag agrees, a new parse of its version string otherwise
ReSemVer(semver, loose) ==
    IF semver.loose = loose THEN semver ELSE NewSemVer(semver.version, loose)

\* valid(version) of a string, strict: the version string or null
valid(version) == ~NewSemVer(version, FALSE).threw

\* compareIdentifiers of two prerelease identifiers
compareIdentifiers(a, b) ==
    IF a.isNum /\ b.isNum
    THEN (IF a.n = b.n THEN 0 ELSE IF a.n < b.n THEN -1 ELSE 1)
    ELSE IF a.isNum THEN -1
    ELSE IF b.isNum THEN 1
    ELSE StrCompare(a.s, b.s)

RECURSIVE comparePre(_, _)
comparePre(a, b) ==
    IF Len(a) = 0 /\ Len(b) = 0 THEN 0
    ELSE IF Len(b) = 0 THEN 1
    ELSE IF Len(a) = 0 THEN -1
    ELSE IF a[1] = b[1] THEN comparePre(Tail(a), Tail(b))
    ELSE compareIdentifiers(a[1], b[1])

cmpNum(a, b) == IF a < b THEN -1 ELSE IF a > b THEN 1 ELSE 0

\* SemVer.prototype.compare: compareMain || comparePre
compare(a, b) ==
    IF cmpNum(a.major, b.major) # 0 THEN cmpNum(a.major, b.major)
    ELSE IF cmpNum(a.minor, b.minor) # 0 THEN cmpNum(a.minor, b.minor)
    ELSE IF cmpNum(a.patch, b.patch) # 0 THEN cmpNum(a.patch, b.patch)
    ELSE IF Len(a.prerelease) > 0 /\ Len(b.prerelease) = 0 THEN -1
    ELSE IF Len(a.prerelease) = 0 /\ Len(b.prerelease) > 0 THEN 1
    ELSE comparePre(a.prerelease, b.prerelease)

\* gte(a, b): both operands are rebuilt strictly, as compare(a, b, undefined) does
gte(a, b) == compare(ReSemVer(a, FALSE), ReSemVer(b, FALSE)) >= 0


-----------------------------------------------------------------------------
(* Locator parser and version policy *)

Undefined == [kind |-> "undefined"]

\* arduinoGitHub
arduinoOwner == <<"a", "r", "d", "u", "i", "n", "o">>

arduinoRepo == <<"a", "r", "d", "u", "i", "n", "o", "-", "c", "l", "i">>

\* releases: `https://github.com/${owner}/${repo}/releases`
releases ==
    <<"https://github.com/">> \o arduinoOwner \o <<"/">> \o arduinoRepo \o <<"/releases">>

\* new SemVer('0.29.0')
ProtosPublishedSince == NewSemVer(<<"0", ".", "2", "9", ".", "0">>, FALSE)

\* new SemVer('0.35.0-rc.1')
ReleaseTagPrefixedSince ==
    NewSemVer(<<"0", ".", "3", "5", ".", "0", "-", "r", "c", ".", "1">>, FALSE)

\* the threshold taken exclusive, as a check with gt
canDownloadProtos_gt(semver) ==
    compare(ReSemVer(semver, FALSE), ReSemVer(ProtosPublishedSince, FALSE)) > 0

canDownloadProtos(semver) == gte(semver, ProtosPublishedSince)

\* the prefix threshold taken as the release 0.35.0
hasSemverPrefix_release(semver) ==
    gte(semver, NewSemVer(<<"0", ".", "3", "5", ".", "0">>, FALSE))

hasSemverPrefix(semver) == gte(semver, ReleaseTagPrefixedSince)

\* parseSemver returning the version object whatever the version is
classify_anyversion(semver) == [kind |-> "semver", semver |-> semver]

\* parseSemver without the fallback to the repository for the older versions
classify_nofallback(semver) ==
    IF canDownloadProtos(semver)
    THEN [kind |-> "semver", semver |-> semver]
    ELSE Undefined

\* The result is a SemVer (kind "semver"), a GitHub (kind "github") or undefined.
classify(semver) ==
    IF canDownloadProtos(semver)
    THEN [kind |-> "semver", semver |-> semver]
    ELSE [kind |-> "github", owner |-> arduinoOwner, repo |-> arduinoRepo,
          hasCommit |-> TRUE, commit |-> semver.version]

parseSemver(s) == IF ~valid(s) THEN Undefined ELSE classify(NewSemVer(s, TRUE))

\* the owner class widened to the repo class
OwnerChar_repo == Digit \cup Letter \cup {"-", "_", "."}

OwnerChar == Digit \cup Letter \cup {"-"}

RepoChar == Digit \cup Letter \cup {"-", "_", "."}

\* ghPattern: ^(?<owner>[0-9a-zA-Z-]+)\/(?<repo>[0-9a-zA-Z-_\.]+)(#(?<commit>[^\s]+))?$
\* The owner class has no '/', and the repo class no '#': the owner ends at the
\* first '/', the repo at the first '#' after it.
\* the pattern with a commit group that may be empty or hold whitespace
ghGroups_anycommit(owner, repo, hasCommit, commit) ==
    IF /\ Len(owner) > 0 /\ AllIn(owner, OwnerChar)
       /\ Len(repo) > 0 /\ AllIn(repo, RepoChar)
    THEN [ok |-> TRUE, owner |-> owner, repo |-> repo,
          hasCommit |-> hasCommit, commit |-> commit]
    ELSE NoMatch

ghGroups(owner, repo, hasCommit, commit) ==
    IF /\ Len(owner) > 0 /\ AllIn(owner, OwnerChar)
       /\ Len(repo) > 0 /\ AllIn(repo, RepoChar)
       /\ (hasCommit => (Len(commit) > 0 /\ \A i \in 1..Len(commit) : commit[i] \notin Space))
    THEN [ok |-> TRUE, owner |-> owner, repo |-> repo,
          hasCommit |-> hasCommit, commit |-> commit]
    ELSE NoMatch

ghRest(owner, rest, hash) ==
    ghGroups(owner, CutAt(rest, hash), hash # 0, AfterOrNone(rest, hash))

ghSlash(s, slash) ==
    IF slash = 0 THEN NoMatch
    ELSE ghRest(SubSeq(s, 1, slash - 1), SubSeq(s, slash + 1, Len(s)),
                IndexOf(SubSeq(s, slash + 1, Len(s)), "#"))

ghPattern(s) == ghSlash(s, IndexOf(s, "/"))

\* a result that always carries a commit field
ghOf_alwayscommit(match) ==
    IF match.ok
    THEN [kind |-> "github", owner |-> match.owner, repo |-> match.repo,
          hasCommit |-> TRUE, commit |-> match.commit]
    ELSE Undefined

ghOf(match) ==
    IF match.ok
    THEN [kind |-> "github", owner |-> match.owner, repo |-> match.repo,
          hasCommit |-> match.hasCommit, commit |-> match.commit]
    ELSE Undefined

parseGitHub(s) == ghOf(ghPattern(s))

orElse(a, b) == IF a.kind # "undefined" THEN a ELSE b

\* parseSemver(src) || parseGitHub(src)
semverOrGitHub(s) == orElse(parseSemver(s), parseGitHub(s))

\* valid(semver) of a SemVer object: parse returns the object, valid its version
validSemVer(semver) == Len(semver.version) > 0

\* ghReleaseVersion of protoLocation
ghReleaseVersion(semver) ==
    IF hasSemverPrefix(semver) THEN semver.raw ELSE semver.version

\* filename of protoLocation
protoFilename(semver) == <<"arduino-cli_">> \o semver.version \o <<"_proto.zip">>

locationOf(semver, filename) ==
    [threw |-> FALSE,
     endpoint |-> releases \o <<"/download/">> \o ghReleaseVersion(semver)
                  \o <<"/">> \o filename,
     filename |-> filename]

protoLocation(semver) ==
    IF ~validSemVer(semver)
    THEN [threw |-> TRUE, msg |-> <<"invalid semver ">> \o semver.version]
    ELSE IF ~canDownloadProtos(semver)
    THEN [threw |-> TRUE,
          msg |-> <<"semver must be '>=0.29.0' it was ">> \o semver.version]
    ELSE locationOf(semver, protoFilename(semver))

-----------------------------------------------------------------------------
(* Values of the run *)

\* options.out
out == <<"./src-gen">>

NoResult == [kind |-> "pending", msg |-> <<>>]

Resolved == [kind |-> "resolved", msg |-> <<>>]

\* a promise rejected with new Error(msg), or with the error of a collaborator
Rejected(msg) == [kind |-> "rejected", msg |-> msg]

NoHandle == [kind |-> "none", protoPath |-> <<>>, path |-> <<>>]

\* { protoPath: join(path, 'rpc'), dispose: () => rimraf(path) }
Handle(path) == [kind |-> "handle", protoPath |-> path \o <<"/rpc">>, path |-> path]

NoFrame == [gh |-> Undefined, path |-> <<>>]

\* what globProtos resolves with: undefined, or the list globby found
Absent == [found |-> FALSE, files |-> <<>>]

MaxProtos == 2

ProtoFile(i) == <<"f">> \o NumToString(i) \o <<".proto">>

Found(n) == [found |-> TRUE, files |-> [i \in 1..n |-> ProtoFile(i)]]

GlobResults == {Absent} \cup {Found(n) : n \in 0..MaxProtos}

\* the path dir({ prefix }) resolves with: a fresh directory
TmpPath(prefix, n) == <<"/tmp/">> \o prefix \o <<"-">> \o NumToString(n)

Event(op, arg) == [op |-> op, arg |-> arg]

\* status codes a server may answer with
StatusCodes == {200, 302, 404, 500}

MaxDepth == 3


-----------------------------------------------------------------------------
(* The generator: plugins, createArgs, generate *)

pluginName == <<"ts_proto">>

\* require.resolve('ts-proto/protoc-gen-ts_proto')
pluginPath == <<"<ts-proto>/protoc-gen-ts_proto">>

\* plugins.ts_proto.options, in the order of Object.entries; a value that is no
\* array is the list of itself, as (Array.isArray(value) ? value : [value])
pluginOptions ==
    << [key |-> <<"outputServices">>, values |-> << <<"nice-grpc">>, <<"generic-definitions">> >>],
       [key |-> <<"oneof">>, values |-> << <<"unions">> >>],
       [key |-> <<"useExactTypes">>, values |-> << <<"false">> >>],
       [key |-> <<"paths">>, values |-> << <<"source_relative">> >>],
       [key |-> <<"esModuleInterop">>, values |-> << <<"true">> >>],
       [key |-> <<"exportCommonSymbols">>, values |-> << <<"false">> >>],
       [key |-> <<"useOptionals">>, values |-> << <<"none">> >>] >>

\* one entry per option, the elements of an array value joined into it
optEntries_joined(options) ==
    [i \in 1..Len(options) |->
        options[i].key \o <<"=">> \o Join(options[i].values, <<",">>)]

RECURSIVE optEntries(_)
\* the reduce of createArgs: one `${key}=${v}` per value, in order
optEntries(options) ==
    IF Len(options) = 0 THEN <<>>
    ELSE [i \in 1..Len(options[1].values) |->
              options[1].key \o <<"=">> \o options[1].values[i]]
         \o optEntries(Tail(options))

createArgs(name, options, path, protoSrc, protoOut) ==
    << <<"--plugin=">> \o path,
       <<"--proto_path=">> \o protoSrc,
       <<"--">> \o name \o <<"_opt=">> \o Join(optEntries(options), <<",">>),
       <<"--">> \o name \o <<"_out=">> \o protoOut >>

\* args of generate: [...createArgs([name, plugin], src, out), ...protos]
protocArgs(protoSrc, files) ==
    createArgs(pluginName, pluginOptions, pluginPath, protoSrc, out) \o files

NoGen == [src |-> <<>>, protos |-> <<>>]

-----------------------------------------------------------------------------
(* The run of the default export *)

\* an outcome that settles the run at once, with no finally block
Settle_nofinally(outcome) ==
    /\ result' = outcome
    /\ pc' = "done"
    /\ primary' = primary

\* how a try block or a function without a handle ends: with a handle the
\* outcome waits for finally, without one it settles the promise of the run
Settle(outcome) ==
    IF handle.kind = "handle"
    THEN /\ primary' = outcome
         /\ pc' = "finally"
         /\ result' = result
    ELSE /\ result' = outcome
         /\ pc' = "done"
         /\ primary' = primary

\* fs.access(out).then(() => true, () => false)
AccessOut ==
    /\ pc = "await_all" /\ ~accessDone
    /\ accessDone' = TRUE
    /\ outExists' = (outFs # "missing")
    /\ trace' = Append(trace, Event("access", out))
    /\ UNCHANGED <<src, env, force, outFs, srcProtos, pc, globDone, protos, locator, stack, cl,
                   handle, gen, tmp, nTmp, pending, primary, result, call>>

\* globProtos(src) of the Promise.all
GlobSrc ==
    /\ pc = "await_all" /\ ~globDone
    /\ globDone' = TRUE
    /\ protos' = srcProtos
    /\ trace' = Append(trace, Event("glob", src))
    /\ UNCHANGED <<locator, src, env, force, outFs, srcProtos, pc, accessDone, outExists, stack,
                   cl, handle, gen, tmp, nTmp, pending, primary, result, call>>

\* a race of the two promises in place of Promise.all
AllSettled_either == pc = "await_all" /\ (accessDone \/ globDone)

AllSettled == pc = "await_all" /\ accessDone /\ globDone

\* the existence check placed after the local-directory branch
OutputBlocked_late ==
    ~force /\ outExists /\ ~(protos.found /\ Len(protos.files) > 0)

\* if (!force && outExists)
OutputBlocked == ~force /\ outExists

\* the local directory used only when src is no version and no owner/repo
LocalProtos_remotefirst ==
    protos.found /\ Len(protos.files) > 0 /\ semverOrGitHub(src).kind = "undefined"

\* if (protos && protos.length)
LocalProtos == protos.found /\ Len(protos.files) > 0

FailOutputExists ==
    /\ AllSettled
    /\ OutputBlocked
    /\ result' = Rejected(out \o <<" already exists. Use '--force' to override output">>)
    /\ pc' = "done"
    /\ UNCHANGED <<src, env, force, outFs, srcProtos, accessDone, globDone, outExists,
                   protos, locator, stack, cl, handle, gen, tmp, nTmp, pending, primary,
                   trace, call>>

\* return generate(src, protos, out)
UseLocal ==
    /\ AllSettled
    /\ ~OutputBlocked
    /\ LocalProtos
    /\ gen' = [src |-> src, protos |-> protos.files]
    /\ pc' = "gen_mkdir"
    /\ UNCHANGED <<src, env, force, outFs, srcProtos, accessDone, globDone, outExists,
                   protos, locator, stack, cl, handle, tmp, nTmp, pending, primary, result,
                   trace, call>>

\* const semverOrGitHub = parseSemver(src) || parseGitHub(src)
ParseSrc ==
    /\ AllSettled
    /\ ~OutputBlocked
    /\ ~LocalProtos
    /\ locator' = semverOrGitHub(src)
    /\ pc' = "parsed"
    /\ UNCHANGED <<src, env, force, outFs, srcProtos, accessDone, globDone, outExists,
                   protos, stack, cl, handle, gen, tmp, nTmp, pending, primary,
                   result, trace, call>>

\* if (!semverOrGitHub) throw new Error(`Invalid <src>: ${src}`)
FailInvalidSrc ==
    /\ pc = "parsed"
    /\ locator.kind = "undefined"
    /\ result' = Rejected(<<"Invalid <src>: ">> \o src)
    /\ pc' = "done"
    /\ UNCHANGED <<src, env, force, outFs, srcProtos, accessDone, globDone, outExists,
                   protos, locator, stack, cl, handle, gen, tmp, nTmp, pending, primary,
                   trace, call>>


\* an error thrown inside clone or download: neither catches it and the driver
\* awaits them outside its try block, so it rejects the promise of the run
\* a failed operation started again in place of the throw
Throw_retry(msg) ==
    /\ result' = result
    /\ pc' = pc
    /\ stack' = stack

Throw(msg) ==
    /\ result' = Rejected(msg)
    /\ pc' = "done"
    /\ stack' = <<>>

\* the first statements of download(semver): protoLocation, then the first request
Request(semver, loc) ==
    IF loc.threw
    THEN Throw(loc.msg)
    ELSE /\ stack' = Append(stack, [semver |-> semver, endpoint |-> loc.endpoint,
                                    filename |-> loc.filename, path |-> <<>>,
                                    v104 |-> NoHandle])
         /\ pc' = "dl_get1"
         /\ result' = result

EnterDownload(semver) == Request(semver, protoLocation(semver))

\* semverOrGitHub instanceof SemVer ? download(semverOrGitHub) : ...
StartDownload ==
    /\ pc = "parsed"
    /\ locator.kind = "semver"
    /\ EnterDownload(locator.semver)
    /\ UNCHANGED <<src, env, force, outFs, srcProtos, accessDone, globDone, outExists,
                   protos, locator, cl, handle, gen, tmp, nTmp, pending, primary, trace, call>>

\* the output directory made before the repository is cloned
StartClone_mkout ==
    /\ pc = "parsed"
    /\ locator.kind = "github"
    /\ cl' = [gh |-> locator, path |-> <<>>]
    /\ pc' = "cl_dir"
    /\ outFs' = IF outFs = "missing" THEN "dir" ELSE outFs
    /\ UNCHANGED <<src, env, force, srcProtos, accessDone, globDone, outExists,
                   protos, locator, stack, handle, gen, tmp, nTmp, pending, primary, result,
                   trace, call>>

\* ... : clone(semverOrGitHub)
StartClone ==
    /\ pc = "parsed"
    /\ locator.kind = "github"
    /\ cl' = [gh |-> locator, path |-> <<>>]
    /\ pc' = "cl_dir"
    /\ UNCHANGED <<src, env, force, outFs, srcProtos, accessDone, globDone, outExists,
                   protos, locator, stack, handle, gen, tmp, nTmp, pending, primary, result,
                   trace, call>>

-----------------------------------------------------------------------------
(* clone *)

\* the URL of the repository page, without '.git'
cloneUrl_nogit(gh) == <<"https://github.com/">> \o gh.owner \o <<"/">> \o gh.repo

cloneUrl(gh) == <<"https://github.com/">> \o gh.owner \o <<"/">> \o gh.repo \o <<".git">>

\* the default branch named instead of HEAD
commitOf_master(gh) == IF gh.hasCommit THEN gh.commit ELSE <<"master">>

\* const { owner, repo, commit = 'HEAD' } = gh
commitOf(gh) == IF gh.hasCommit THEN gh.commit ELSE <<"HEAD">>

\* const { path } = await dir({ prefix: repo })
CloneDir ==
    /\ pc = "cl_dir"
    /\ \E ok \in BOOLEAN :
        IF ok
        THEN /\ nTmp' = nTmp + 1
             /\ tmp' = tmp \cup {TmpPath(cl.gh.repo, nTmp + 1)}
             /\ cl' = [cl EXCEPT !.path = TmpPath(cl.gh.repo, nTmp + 1)]
             /\ trace' = Append(trace, Event("dir", TmpPath(cl.gh.repo, nTmp + 1)))
             /\ pc' = "cl_clone"
             /\ UNCHANGED <<locator, result, stack>>
        ELSE /\ Throw(<<"<tmp error>">>)
             /\ UNCHANGED <<locator, nTmp, tmp, cl, trace>>
    /\ UNCHANGED <<src, env, force, outFs, srcProtos, accessDone, globDone, outExists,
                   protos, locator, handle, gen, pending, primary, call>>

\* await execa('git', ['clone', url, path])
GitClone ==
    /\ pc = "cl_clone"
    /\ trace' = Append(trace, Event("git clone", cloneUrl(cl.gh)))
    /\ \E ok \in BOOLEAN :
        IF ok
        THEN pc' = "cl_fetch" /\ UNCHANGED <<locator, result, stack>>
        ELSE Throw(<<"Could not clone GitHub repository from ">> \o cloneUrl(cl.gh)
                   \o <<"\n\nReason: ", "<git error>">>)
    /\ UNCHANGED <<src, env, force, outFs, srcProtos, accessDone, globDone, outExists,
                   protos, locator, cl, handle, gen, tmp, nTmp, pending, primary, call>>

\* await execa('git', ['-C', path, 'fetch', '--all', '--tags'])
GitFetch ==
    /\ pc = "cl_fetch"
    /\ trace' = Append(trace, Event("git fetch", cl.path))
    /\ \E ok \in BOOLEAN :
        IF ok
        THEN pc' = "cl_checkout" /\ UNCHANGED <<locator, result, stack>>
        ELSE Throw(<<"<git error>">>)
    /\ UNCHANGED <<src, env, force, outFs, srcProtos, accessDone, globDone, outExists,
                   protos, locator, cl, handle, gen, tmp, nTmp, pending, primary, call>>

\* await execa('git', ['-C', path, 'checkout', commit]), then the return
GitCheckout ==
    /\ pc = "cl_checkout"
    /\ trace' = Append(trace, Event("git checkout", commitOf(cl.gh)))
    /\ \E ok \in BOOLEAN :
        IF ok
        THEN /\ handle' = Handle(cl.path)
             /\ pc' = "glob_acquired"
             /\ UNCHANGED <<locator, result, stack>>
        ELSE /\ Throw(<<"Could not checkout commit '">> \o commitOf(cl.gh) \o <<"' in ">>
                      \o cl.gh.owner \o <<"/">> \o cl.gh.repo
                      \o <<"\n\nReason: ", "<git error>">>)
             /\ handle' = handle
    /\ UNCHANGED <<src, env, force, outFs, srcProtos, accessDone, globDone, outExists,
                   protos, locator, cl, gen, tmp, nTmp, pending, primary, call>>


-----------------------------------------------------------------------------
(* download *)

\* the frame of the innermost download
top == stack[Len(stack)]

SetTop(f) == [stack EXCEPT ![Len(stack)] = f]

\* the message with the two codes in each other's place
unexpectedStatus_swapped(actual, expected) ==
    <<"unexpected status code. was ">> \o NumToString(expected)
    \o <<", expected ">> \o NumToString(actual)

\* assertStatusCode's message
unexpectedStatus(actual, expected) ==
    <<"unexpected status code. was ">> \o NumToString(actual)
    \o <<", expected ">> \o NumToString(expected)

\* values of process.env.https_proxy: not set, the empty string, a proxy URL
ProxyEnvs ==
    {[set |-> FALSE, value |-> <<>>], [set |-> TRUE, value |-> <<>>],
     [set |-> TRUE, value |-> <<"http://proxy:8080">>]}

\* a proxy used whenever the variable is set, also to the empty string
viaProxy_whenset == IF env.set THEN <<Event("proxy", env.value)>> ELSE <<>>

\* get: const proxy = process.env.https_proxy;
\* if (proxy) { url.agent = new HttpsProxyAgent(proxy) }
viaProxy == IF env.set /\ env.value # <<>> THEN <<Event("proxy", env.value)>> ELSE <<>>

\* the environment changes the variable between the first request of a download
\* and the request of the redirect location
SetProxy ==
    /\ pc = "dl_get2"
    /\ env' \in ProxyEnvs \ {env}
    /\ UNCHANGED <<src, runVars, call>>

\* the message built from the string the user typed
releaseNotFound_raw(semver) ==
    <<"Could not found release for version '">> \o semver.raw
    \o <<"'. Check the release page of the Arduino CLI for available versions: ">>
    \o releases

releaseNotFound(semver) ==
    <<"Could not found release for version '">> \o semver.version
    \o <<"'. Check the release page of the Arduino CLI for available versions: ">>
    \o releases

\* const getLocationResp = await get(endpoint), and the checks of the response,
\* for a response with this status code, with or without a location header
GetLocationWith(status, location) ==
    /\ pc = "dl_get1"
    /\ trace' = trace \o viaProxy \o <<Event("GET", top.endpoint)>>
    /\ IF status = 404 THEN Throw(releaseNotFound(top.semver))
       ELSE IF status # 302 THEN Throw(unexpectedStatus(status, 302))
       ELSE IF ~location THEN Throw(<<"no location header was found: ", "<headers>">>)
       ELSE pc' = "dl_get2" /\ UNCHANGED <<locator, result, stack>>
    /\ UNCHANGED <<src, env, force, outFs, srcProtos, accessDone, globDone, outExists,
                   protos, locator, cl, handle, gen, tmp, nTmp, pending, primary, call>>

GetLocation ==
    \E status \in StatusCodes, location \in BOOLEAN : GetLocationWith(status, location)

\* the temporary directory made before the status of the asset response is checked
GetAssetWith_dirfirst(status) ==
    /\ pc = "dl_get2"
    /\ trace' = trace \o viaProxy
                 \o <<Event("GET", <<"<location>">>),
                      Event("dir", TmpPath(arduinoRepo, nTmp + 1))>>
    /\ nTmp' = nTmp + 1
    /\ tmp' = tmp \cup {TmpPath(arduinoRepo, nTmp + 1)}
    /\ IF status # 200 THEN Throw(unexpectedStatus(status, 200))
       ELSE /\ pc' = "dl_write"
            /\ stack' = SetTop([top EXCEPT !.path = TmpPath(arduinoRepo, nTmp + 1)])
            /\ result' = result
    /\ UNCHANGED <<src, env, force, outFs, srcProtos, accessDone, globDone, outExists,
                   protos, locator, cl, handle, gen, pending, primary, call>>

\* const getAssetResp = await get(location); assertStatusCode(..., 200), for a
\* response with this status code
GetAssetWith(status) ==
    /\ pc = "dl_get2"
    /\ trace' = trace \o viaProxy \o <<Event("GET", <<"<location>">>)>>
    /\ IF status # 200 THEN Throw(unexpectedStatus(status, 200))
       ELSE pc' = "dl_dir" /\ UNCHANGED <<locator, result, stack>>
    /\ UNCHANGED <<src, env, force, outFs, srcProtos, accessDone, globDone, outExists,
                   protos, locator, cl, handle, gen, tmp, nTmp, pending, primary, call>>

GetAsset == \E status \in StatusCodes : GetAssetWith(status)

\* get: the promise resolves in the response callback only; a request that fails
\* before any response never settles it
GetNoResponse ==
    /\ pc \in {"dl_get1", "dl_get2"}
    /\ trace' = trace \o viaProxy
                 \o <<Event("GET", IF pc = "dl_get1" THEN top.endpoint
                                   ELSE <<"<location>">>)>>
    /\ pc' = "hung"
    /\ UNCHANGED <<src, env, force, outFs, srcProtos, accessDone, globDone, outExists,
                   protos, locator, stack, cl, handle, gen, tmp, nTmp, pending, primary,
                   result, call>>

\* const { path } = await dir({ prefix: repo })
DownloadDir ==
    /\ pc = "dl_dir"
    /\ \E ok \in BOOLEAN :
        IF ok
        THEN /\ nTmp' = nTmp + 1
             /\ tmp' = tmp \cup {TmpPath(arduinoRepo, nTmp + 1)}
             /\ stack' = SetTop([top EXCEPT !.path = TmpPath(arduinoRepo, nTmp + 1)])
             /\ trace' = Append(trace, Event("dir", TmpPath(arduinoRepo, nTmp + 1)))
             /\ pc' = "dl_write"
             /\ result' = result
        ELSE /\ Throw(<<"<tmp error>">>)
             /\ UNCHANGED <<locator, nTmp, tmp, trace>>
    /\ UNCHANGED <<src, env, force, outFs, srcProtos, accessDone, globDone, outExists,
                   protos, locator, cl, handle, gen, pending, primary, call>>

\* the promise of zipPath: 'finish' then close resolves or rejects it, 'error' of
\* the file rejects it, an error of the response stream leaves it unsettled
WriteArchive ==
    /\ pc = "dl_write"
    /\ trace' = Append(trace, Event("write", top.path \o <<"/">> \o top.filename))
    /\ \E outcome \in {"finish", "close error", "file error", "response error"} :
        IF outcome = "finish" THEN pc' = "dl_open" /\ UNCHANGED <<locator, result, stack>>
        ELSE IF outcome = "response error" THEN pc' = "hung" /\ UNCHANGED <<locator, result, stack>>
        ELSE Throw(<<"<fs error>">>)
    /\ UNCHANGED <<src, env, force, outFs, srcProtos, accessDone, globDone, outExists,
                   protos, locator, cl, handle, gen, tmp, nTmp, pending, primary, call>>

\* const archive = await Open.file(zipPath)
OpenArchive ==
    /\ pc = "dl_open"
    /\ trace' = Append(trace, Event("open", top.path \o <<"/">> \o top.filename))
    /\ \E ok \in BOOLEAN :
        IF ok THEN pc' = "dl_extract" /\ UNCHANGED <<locator, result, stack>>
        ELSE Throw(<<"<unzipper error>">>)
    /\ UNCHANGED <<src, env, force, outFs, srcProtos, accessDone, globDone, outExists,
                   protos, locator, cl, handle, gen, tmp, nTmp, pending, primary, call>>

\* await archive.extract({ path: protoPath })
ExtractArchive ==
    /\ pc = "dl_extract"
    /\ trace' = Append(trace, Event("extract", top.path \o <<"/rpc">>))
    /\ \E ok \in BOOLEAN :
        IF ok THEN pc' = "dl_patch" /\ UNCHANGED <<locator, result, stack>>
        ELSE Throw(<<"<unzipper error>">>)
    /\ UNCHANGED <<src, env, force, outFs, srcProtos, accessDone, globDone, outExists,
                   protos, locator, cl, handle, gen, tmp, nTmp, pending, primary, call>>

v104 == <<"1", ".", "0", ".", "4">>

\* the patch applied to every version, 1.0.4 included
NeedsPatch_always == TRUE

\* the patch applied to the versions before 1.0.4 only
NeedsPatch_older == top.semver.version # v104 /\ top.semver.major = 0

\* if (semver.version !== '1.0.4')
NeedsPatch == top.semver.version # v104

\* await download(new SemVer('v1.0.4'))
NestedDownload ==
    /\ pc = "dl_patch"
    /\ NeedsPatch
    /\ Len(stack) < MaxDepth
    /\ EnterDownload(NewSemVer(<<"v">> \o v104, FALSE))
    /\ UNCHANGED <<src, env, force, outFs, srcProtos, accessDone, globDone, outExists,
                   protos, locator, cl, handle, gen, tmp, nTmp, pending, primary, trace, call>>

\* source and destination of the copy: join(v104ProtoPath, 'google') and
\* join(protoPath, 'google'), where protoPath is join(path, 'rpc')
cpGoogle(v104ProtoPath, path) ==
    v104ProtoPath \o <<"/google", " -> ">> \o path \o <<"/rpc", "/google">>

\* await fs.cp(join(v104ProtoPath, 'google'), join(protoPath, 'google'), ...),
\* then v104Dispose(), which is not awaited
CopyGoogle ==
    /\ pc = "dl_cp"
    /\ \E ok \in BOOLEAN :
        IF ok
        THEN /\ trace' = trace \o <<Event("cp", cpGoogle(top.v104.protoPath, top.path)),
                                    Event("rimraf", top.v104.path)>>
             /\ pending' = pending \cup {top.v104.path}
             /\ pc' = "dl_return"
             /\ UNCHANGED <<locator, result, stack>>
        ELSE /\ trace' = Append(trace, Event("cp", cpGoogle(top.v104.protoPath, top.path)))
             /\ Throw(<<"<fs error>">>)
             /\ pending' = pending
    /\ UNCHANGED <<src, env, force, outFs, srcProtos, accessDone, globDone, outExists,
                   protos, locator, cl, handle, gen, tmp, nTmp, primary, call>>

\* return { protoPath, dispose: () => rimraf(path) }, to the driver or to the
\* download that awaits the 1.0.4 archive
DownloadReturn ==
    /\ \/ pc = "dl_return"
       \/ pc = "dl_patch" /\ ~NeedsPatch
    /\ IF Len(stack) = 1
       THEN /\ handle' = Handle(top.path)
            /\ stack' = <<>>
            /\ pc' = "glob_acquired"
       ELSE /\ stack' = [SubSeq(stack, 1, Len(stack) - 1)
                            EXCEPT ![Len(stack) - 1].v104 = Handle(top.path)]
            /\ pc' = "dl_cp"
            /\ handle' = handle
    /\ UNCHANGED <<src, env, force, outFs, srcProtos, accessDone, globDone, outExists,
                   protos, locator, cl, gen, tmp, nTmp, pending, primary, result, trace, call>>

\* a rimraf that was started and not awaited settles on its own
PendingRimraf ==
    /\ pending # {}
    /\ \E path \in pending, ok \in BOOLEAN :
        /\ pending' = pending \ {path}
        /\ tmp' = IF ok THEN tmp \ {path} ELSE tmp
    /\ UNCHANGED <<src, env, force, outFs, srcProtos, pc, accessDone, globDone, outExists,
                   protos, locator, stack, cl, handle, gen, nTmp, primary, result, trace, call>>


-----------------------------------------------------------------------------
(* The try block of the driver, generate, and finally *)

\* const protos = await globProtos(protoPath); if (!protos) throw ...;
\* otherwise generate(protoPath, protos, out) is called
GlobAcquired ==
    /\ pc = "glob_acquired"
    /\ trace' = Append(trace, Event("glob", handle.protoPath))
    /\ \E found \in GlobResults :
        IF ~found.found
        THEN /\ primary' = Rejected(<<"Failed to glob in ">> \o handle.protoPath)
             /\ pc' = "finally"
             /\ gen' = gen
        ELSE /\ gen' = [src |-> handle.protoPath, protos |-> found.files]
             /\ pc' = "gen_mkdir"
             /\ primary' = primary
    /\ UNCHANGED <<src, env, force, outFs, srcProtos, accessDone, globDone, outExists,
                   protos, locator, stack, cl, handle, tmp, nTmp, pending, result, call>>

\* await fs.mkdir(out, { recursive: true }): it fails when out is a file, and may
\* fail for any other reason of the file system
MakeOut ==
    /\ pc = "gen_mkdir"
    /\ trace' = Append(trace, Event("mkdir", out))
    /\ \E ok \in BOOLEAN :
        IF ok /\ outFs # "file"
        THEN /\ outFs' = "dir"
             /\ pc' = "gen_protoc"
             /\ UNCHANGED <<locator, primary, result>>
        ELSE /\ Settle(Rejected(<<"Failed to create '--out' ">> \o out
                                \o <<": ", "<fs error>">>))
             /\ outFs' = outFs
    /\ UNCHANGED <<src, env, force, srcProtos, accessDone, globDone, outExists, protos, locator,
                   stack, cl, handle, gen, tmp, nTmp, pending, call>>

\* await execa(protoc, args)
RunProtoc ==
    /\ pc = "gen_protoc"
    /\ trace' = Append(trace, Event("protoc", protocArgs(gen.src, gen.protos)))
    /\ \E ok \in BOOLEAN :
        IF ok THEN Settle(Resolved) ELSE Settle(Rejected(<<"<protoc error>">>))
    /\ UNCHANGED <<src, env, force, outFs, srcProtos, accessDone, globDone, outExists,
                   protos, locator, stack, cl, handle, gen, tmp, nTmp, pending, call>>

\* a removal that can fail whether or not the path exists
rimrafOutcomes_strict(path) == BOOLEAN

\* rimraf(path) resolves (TRUE) or rejects (FALSE): a path that exists may fail to
\* be removed; a path that does not exist is no error, as with rm -rf
rimrafOutcomes(path) == IF path \in tmp THEN BOOLEAN ELSE {TRUE}

\* finally { await dispose() }: the call of rimraf(path)
Dispose ==
    /\ pc = "finally"
    /\ trace' = Append(trace, Event("rimraf", handle.path))
    /\ pc' = "disposing"
    /\ UNCHANGED <<src, env, force, outFs, srcProtos, accessDone, globDone, outExists,
                   protos, locator, stack, cl, handle, gen, tmp, nTmp, pending, primary,
                   result, call>>

\* the awaited rimraf settles: resolved, the outcome of the try block stands;
\* rejected, the rejection replaces it
DisposeSettled ==
    /\ pc = "disposing"
    /\ \E ok \in rimrafOutcomes(handle.path) :
        IF ok
        THEN /\ tmp' = tmp \ {handle.path}
             /\ result' = primary
        ELSE /\ tmp' = tmp
             /\ result' = Rejected(<<"<rimraf error>">>)
    /\ pc' = "done"
    /\ UNCHANGED <<src, env, force, outFs, srcProtos, accessDone, globDone, outExists,
                   protos, locator, stack, cl, handle, gen, nTmp, pending, primary, trace, call>>

-----------------------------------------------------------------------------
(* Inputs and specifications *)

\* a <src> argument per shape: versions on both sides of the two thresholds, with
\* and without the 'v', 1.0.4 itself, owner/repo[#commit], and strings that are
\* neither
RunSrcs ==
    { <<"1", ".", "1", ".", "0">>,
      <<"v", "1", ".", "1", ".", "0">>,
      <<"1", ".", "0", ".", "4">>,
      <<"v", "1", ".", "0", ".", "4">>,
      <<"1", ".", "0", ".", "4", "+", "b">>,
      <<"v", "0", ".", "3", "5", ".", "0", "-", "r", "c", ".", "1">>,
      <<"0", ".", "3", "5", ".", "0", "-", "r", "c", ".", "0">>,
      <<"v", "0", ".", "3", "4", ".", "2">>,
      <<"0", ".", "2", "9", ".", "0">>,
      <<"0", ".", "2", "9", ".", "0", "-", "r", "c", ".", "1">>,
      <<"v", "0", ".", "2", "8", ".", "0">>,
      <<"o", "/", "r">>,
      <<"o", "-", "1", "/", "r", "_", ".", "#", "c", "/", "1">>,
      <<"o", "/", "r", "#">>,
      <<"/", "o", "/", "r">>,
      <<"o", "/", "r", "/">>,
      <<"o", "/", "r", "#", "a", " ", "b">>,
      <<".", "/", "r", "p", "c">>,
      <<"0", ".", "3", "0">>,
      <<"a">> }

Idle == [fn |-> "none"]

Applied(fn, arg, ret) == [fn |-> fn, arg |-> arg, ret |-> ret]

Unparsed == [kind |-> "unparsed"]

Init ==
    /\ src \in RunSrcs
    /\ env \in ProxyEnvs
    /\ force \in BOOLEAN
    /\ outFs \in {"missing", "dir", "file"}
    /\ srcProtos \in GlobResults
    /\ pc = "await_all"
    /\ accessDone = FALSE
    /\ globDone = FALSE
    /\ outExists = FALSE
    /\ protos = Absent
    /\ locator = Unparsed
    /\ stack = <<>>
    /\ cl = NoFrame
    /\ handle = NoHandle
    /\ gen = NoGen
    /\ tmp = {}
    /\ nTmp = 0
    /\ pending = {}
    /\ primary = NoResult
    /\ result = NoResult
    /\ trace = <<>>
    /\ call = Idle

Next ==
    \/ AccessOut
    \/ GlobSrc
    \/ FailOutputExists
    \/ UseLocal
    \/ ParseSrc
    \/ FailInvalidSrc
    \/ StartDownload
    \/ StartClone
    \/ CloneDir
    \/ GitClone
    \/ GitFetch
    \/ GitCheckout
    \/ GetLocation
    \/ GetAsset
    \/ GetNoResponse
    \/ SetProxy
    \/ DownloadDir
    \/ WriteArchive
    \/ OpenArchive
    \/ ExtractArchive
    \/ NestedDownload
    \/ CopyGoogle
    \/ DownloadReturn
    \/ PendingRimraf
    \/ GlobAcquired
    \/ MakeOut
    \/ RunProtoc
    \/ Dispose
    \/ DisposeSettled

Spec == Init /\ [][Next]_vars


\* dispose() called once more by whoever holds the handle after the run is over:
\* () => rimraf(path), on a directory that is gone or that the first call left
DisposeAgain ==
    /\ pc = "done"
    /\ handle.kind = "handle"
    /\ call = Idle
    /\ \E ok \in rimrafOutcomes(handle.path) :
        /\ call' = Applied("dispose",
                           [path |-> handle.path, removed |-> handle.path \notin tmp],
                           IF ok THEN Resolved ELSE Rejected(<<"<rimraf error>">>))
        /\ tmp' = IF ok THEN tmp \ {handle.path} ELSE tmp
    /\ UNCHANGED <<src, env, force, outFs, srcProtos, pc, accessDone, globDone, outExists,
                   protos, locator, stack, cl, handle, gen, nTmp, pending, primary,
                   result, trace>>

\* a run, and a second dispose() on the handle it held
SpecDispose == Init /\ [][Next \/ DisposeAgain]_vars

-----------------------------------------------------------------------------
(* The parsers and the version policy on their own, as the unit tests call them *)

\* how an input string is put together: prefix, numbers, prerelease, suffix
Prefixes == {<<>>, <<"v">>, <<"=">>, <<" ">>}

Mains == {<<0, 28, 0>>, <<0, 28, 4>>, <<0, 29, 0>>, <<0, 29, 1>>, <<0, 30, 0>>,
          <<0, 34, 2>>, <<0, 35, 0>>, <<0, 35, 1>>, <<1, 0, 4>>, <<1, 1, 0>>}

Prereleases ==
    {<<>>, <<"-", "r", "c", ".", "0">>, <<"-", "r", "c", ".", "1">>,
     <<"-", "r", "c", "1">>, <<"-", "r", "c">>, <<"-", "b", "e", "t", "a">>,
     <<"-", "r", "c", ".", "1", "0">>, <<"-", "0">>}

Suffixes == {<<>>, <<"+", "b">>, <<".">>, <<" ">>}

Shapes == Prefixes \X Mains \X Prereleases \X Suffixes

\* the version of a shape as a string, without prefix and suffix
Plain(main, pre) ==
    NumToString(main[1]) \o <<".">> \o NumToString(main[2]) \o <<".">>
    \o NumToString(main[3]) \o pre

Build(shape) == shape[1] \o Plain(shape[2], shape[3]) \o shape[4]

\* the strings the unit tests reject, and others that are no version
Malformed ==
    { <<"a">>, <<"0">>, <<"0", ".", "3", "0">>, <<"0", ".", "3", "0", ".">>,
      <<"0", ".", "3", "0", ".", "0", ".">>, <<>>, <<"v">>,
      <<"0", "1", ".", "2", ".", "3">>, <<"1", ".", "2", ".", "3", "4", ".", "5">>,
      <<"1", ".", "2", ".", "3", "r", "c", "1">>, <<"1", ".", "2", ".", "3", "-">>,
      <<"1", ".", "2", ".", "3", "-", "0", "1">>,
      <<"a", "r", "d", "u", "i", "n", "o", "/", "a", "r", "d", "u", "i", "n", "o", "-", "c", "l", "i">>,
      <<"o", "/", "r", "#", "5", "a", "4">>, <<".", "o", "/", "r">>,
      <<"_", "o", "/", "r">>, <<"o", "/", "r", " ", "p">>, <<"o", "/", "r", "#">>,
      <<"/", "o", "/", "r">>, <<"o", "/", "r", "/">>,
      <<"o", "/", "r", "#", "a", " ", "b">>, <<"o", "/", "r", "#", "a", "/", "b", "#">> }

\* owner/repo[#commit] strings by their parts: owners and repos of the two
\* character classes, commits without whitespace, and parts that break each rule
GhParts ==
    [owners |-> {<<"o">>, <<"-">>, <<"0">>, <<"a", "-", "B">>},
     badOwners |-> {<<>>, <<".", "o">>, <<"_", "o">>, <<"o", ".">>, <<"o", "_">>,
                    <<" ", "o">>, <<"o", " ", "o">>, <<"o", "#">>},
     repos |-> {<<"r">>, <<".">>, <<"_">>, <<"-">>, <<"r", ".", "1">>, <<"R", "-", "_">>},
     badRepos |-> {<<>>, <<"r", "/">>, <<"r", "/", "s">>, <<"r", " ", "p">>,
                   <<"r", " ">>, <<"/", "r">>},
     commits |-> {<<"c">>, <<"#">>, <<"a", "/", "b">>, <<"a", "/">>, <<"a", "#", "b">>,
                  <<"5", "a", "4", "f", "f", "e", "0">>,
                  <<"v", "1", ".", "0", ".", "0">>, <<"0">>},
     badCommits |-> {<<>>, <<"a", " ", "b">>, <<" ", "a">>, <<"a", " ">>,
                     <<"a", "\t", "b">>, <<"a", "\n">>}]

\* a shape is <<owner, repo, commit>>, or <<owner, repo>> when there is no '#'
GhShapes ==
    ((GhParts.owners \cup GhParts.badOwners) \X (GhParts.repos \cup GhParts.badRepos))
    \cup ((GhParts.owners \cup GhParts.badOwners) \X (GhParts.repos \cup GhParts.badRepos)
          \X (GhParts.commits \cup GhParts.badCommits))

GhBuild(shape) ==
    shape[1] \o <<"/">> \o shape[2]
    \o (IF Len(shape) = 2 THEN <<>> ELSE <<"#">> \o shape[3])

PureSrcs ==
    {Build(shape) : shape \in Shapes} \cup Malformed
    \cup {GhBuild(shape) : shape \in GhShapes}

ApplyParseSemver ==
    /\ call = Idle
    /\ call' = Applied("parseSemver", src, parseSemver(src))
    /\ UNCHANGED <<src, env, runVars>>

ApplyParseGitHub ==
    /\ call = Idle
    /\ call' = Applied("parseGitHub", src, parseGitHub(src))
    /\ UNCHANGED <<src, env, runVars>>

\* parseSemver(src) || parseGitHub(src), as the driver resolves its locator
ApplySemverOrGitHub ==
    /\ call = Idle
    /\ call' = Applied("semverOrGitHub", src, semverOrGitHub(src))
    /\ UNCHANGED <<src, env, runVars>>

Located(semver) ==
    /\ ~semver.threw
    /\ call' = Applied("protoLocation", semver, protoLocation(semver))

\* protoLocation(new SemVer(raw, { loose: true })), for every raw the constructor
\* accepts
ApplyProtoLocation ==
    /\ call = Idle
    /\ Located(NewSemVer(src, TRUE))
    /\ UNCHANGED <<src, env, runVars>>

InitPure ==
    /\ src \in PureSrcs
    /\ env = [set |-> FALSE, value |-> <<>>]
    /\ force = FALSE
    /\ outFs = "missing"
    /\ srcProtos = Absent
    /\ pc = "idle"
    /\ accessDone = FALSE
    /\ globDone = FALSE
    /\ outExists = FALSE
    /\ protos = Absent
    /\ locator = Unparsed
    /\ stack = <<>>
    /\ cl = NoFrame
    /\ handle = NoHandle
    /\ gen = NoGen
    /\ tmp = {}
    /\ nTmp = 0
    /\ pending = {}
    /\ primary = NoResult
    /\ result = NoResult
    /\ trace = <<>>
    /\ call = Idle

NextPure ==
    \/ ApplyParseSemver
    \/ ApplyParseGitHub
    \/ ApplySemverOrGitHub
    \/ ApplyProtoLocation

SpecPure == InitPure /\ [][NextPure]_vars


-----------------------------------------------------------------------------
(* Properties *)

\* positions of the trace that hold one of the operations ops
At(ops) == {i \in 1..Len(trace) : trace[i].op \in ops}

Acquiring == {"dir", "git clone", "git fetch", "git checkout", "GET", "write",
              "open", "extract", "cp", "rimraf"}

Generating == {"mkdir", "protoc"}

HasAtom(msg, atom) == \E i \in 1..Len(msg) : msg[i] = atom

\* the run is at or past the decision that follows the Promise.all
Decided == accessDone /\ globDone

\* C1: when out is accessible and force is false the run does nothing but the
\* access check and the glob of src, and ends rejected with a message that
\* contains "already exists": no temporary directory, no git or HTTP operation,
\* no parsing, no mkdir and no generator, whatever src is.
C1_OutputExistsFailsFirst ==
    (accessDone /\ outExists /\ ~force) =>
        /\ pc \in {"await_all", "done"}
        /\ nTmp = 0 /\ tmp = {} /\ pending = {}
        /\ At(Acquiring \cup Generating) = {}
        /\ locator = Unparsed /\ handle = NoHandle /\ gen = NoGen
        /\ pc = "done" =>
              /\ result.kind = "rejected"
              /\ result.msg = out \o <<" already exists. Use '--force' to override output">>
              /\ HasAtom(result.msg, " already exists. Use '--force' to override output")

\* C1 witness: the run was rejected for the existing output although src holds
\* local proto files
C1_Witness ==
    /\ pc = "done" /\ outExists /\ ~force
    /\ protos.found /\ Len(protos.files) > 0
    /\ result.kind = "rejected"

\* rimraf calls on the directory of the handle the driver holds
DisposeCalls ==
    Cardinality({i \in At({"rimraf"}) : trace[i].arg = handle.path})

\* C2: once acquisition returned a handle, dispose is called at most once; the
\* promise of the run stays pending until that call has settled, and when the
\* run is over the call was made exactly once.
C2_DisposedOnceBeforeSettling ==
    handle.kind = "handle" =>
        /\ DisposeCalls <= 1
        /\ pc \in {"glob_acquired", "gen_mkdir", "gen_protoc", "finally", "disposing"}
              => result.kind = "pending"
        /\ pc \in {"glob_acquired", "gen_mkdir", "gen_protoc", "finally"}
              => DisposeCalls = 0
        /\ result.kind # "pending" => pc = "done"
        /\ pc = "done" => DisposeCalls = 1
        /\ pc \in {"glob_acquired", "gen_mkdir", "gen_protoc", "finally", "disposing",
                   "done"}

\* C2 witness: the generator failed on an acquired directory and the run ended
\* after one dispose
C2_Witness ==
    /\ pc = "done" /\ handle.kind = "handle"
    /\ primary = Rejected(<<"<protoc error>">>)
    /\ DisposeCalls = 1

\* C3 (as claimed): when the run is rejected, no temporary directory it created
\* is left on disk.
C3_TmpRemovedOnFailure == result.kind = "rejected" => tmp = {}

\* C4 (as claimed): a run that held a handle settles with the outcome of its try
\* block, never with the error of dispose.
C4_DisposeFailureNotPropagated ==
    (pc = "done" /\ handle.kind = "handle") => result = primary


\* the decision found the output free and proto files under src
LocalRun ==
    /\ Decided
    /\ force \/ ~outExists
    /\ protos.found /\ Len(protos.files) > 0

ProtocRuns == At({"protoc"})

\* what C5 says of the generator's arguments: proto_path is src, and the files
\* are the discovered ones
LocalArgs(args) ==
    /\ Len(args) = 4 + Len(protos.files)
    /\ args[2] = <<"--proto_path=">> \o src
    /\ SubSeq(args, 5, Len(args)) = protos.files

\* what holds of a local run whether or not the output directory can be made
LocalFrame ==
    /\ locator = Unparsed /\ handle = NoHandle /\ stack = <<>>
    /\ nTmp = 0 /\ tmp = {} /\ pending = {}
    /\ At(Acquiring) = {}
    /\ Cardinality(ProtocRuns) <= 1
    /\ \A i \in ProtocRuns : LocalArgs(trace[i].arg)
    /\ (pc = "done" /\ ProtocRuns # {} /\ result.kind = "rejected")
          => result.msg = <<"<protoc error>">>
    /\ primary = NoResult

\* C5 (as claimed): with the output free and proto files under src, nothing is
\* parsed or acquired and the generator runs exactly once on src and the
\* discovered files; a run that is over has run it.
C5_LocalGeneratorExactlyOnce ==
    LocalRun => (LocalFrame /\ (pc = "done" => Cardinality(ProtocRuns) = 1))

\* C5 (amended): with the output free and proto files under src, nothing is parsed
\* or acquired, and the generator runs at most once, on src and the discovered
\* files; it runs exactly once unless creating the output directory fails, in
\* which case the run is rejected with the wrapped error and the generator is not
\* run; when the generator succeeds the run succeeds.
C5_LocalGeneration ==
    LocalRun =>
        /\ LocalFrame
        /\ pc = "done" =>
              \/ Cardinality(ProtocRuns) = 1
              \/ /\ ProtocRuns = {}
                 /\ result = Rejected(<<"Failed to create '--out' ">> \o out
                                     \o <<": ", "<fs error>">>)

\* C5 witness: src is the valid version 1.0.4 and a directory with proto files;
\* the generator ran once and the run succeeded
C5_Witness ==
    /\ pc = "done" /\ LocalRun
    /\ src = <<"1", ".", "0", ".", "4">>
    /\ Cardinality(ProtocRuns) = 1
    /\ result = Resolved

\* C6 (as claimed): after acquisition the generator never runs on an empty list
\* of proto files: an empty discovery is a failure.
C6_NoGenerationWithoutProtos ==
    /\ \A i \in ProtocRuns : Len(trace[i].arg) > 4
    /\ (handle.kind = "handle" /\ gen # NoGen) => Len(gen.protos) > 0

\* the inputs of RunSrcs that are no semantic version and no owner/repo[#commit]
NeitherSrcs ==
    { <<"o", "/", "r", "#">>, <<"/", "o", "/", "r">>, <<"o", "/", "r", "/">>,
      <<"o", "/", "r", "#", "a", " ", "b">>, <<".", "/", "r", "p", "c">>,
      <<"0", ".", "3", "0">>, <<"a">> }

\* C7: with the output free, no proto file under src, and a src that is neither
\* a version nor owner/repo[#commit], the run is rejected with 'Invalid <src>: '
\* and src; no temporary directory, git or HTTP operation, mkdir or generator.
C7_InvalidSrcRejected ==
    (/\ Decided
     /\ force \/ ~outExists
     /\ ~(protos.found /\ Len(protos.files) > 0)
     /\ src \in NeitherSrcs) =>
        /\ pc \in {"await_all", "parsed", "done"}
        /\ nTmp = 0 /\ tmp = {} /\ pending = {}
        /\ handle = NoHandle /\ stack = <<>> /\ gen = NoGen
        /\ At(Acquiring \cup Generating) = {}
        /\ pc = "done" => result = Rejected(<<"Invalid <src>: ">> \o src)

\* C7 witness: 'o/r#' on an empty directory was rejected as invalid
C7_Witness ==
    /\ pc = "done"
    /\ src = <<"o", "/", "r", "#">>
    /\ protos = Found(0)
    /\ result = Rejected(<<"Invalid <src>: ">> \o src)


\* The order of semantic versions on the shapes, written out: the numbers compare
\* first, and on equal numbers a version without prerelease is the greater.
MainLess(a, b) ==
    \/ a[1] < b[1]
    \/ a[1] = b[1] /\ a[2] < b[2]
    \/ a[1] = b[1] /\ a[2] = b[2] /\ a[3] < b[3]

\* the version is >= 0.29.0
AtLeast029(main, pre) ==
    \/ MainLess(<<0, 29, 0>>, main)
    \/ main = <<0, 29, 0>> /\ pre = <<>>

\* the prereleases of Prereleases that are >= rc.1: rc.1 itself, rc.10 (10 > 1 as
\* numbers) and rc1 (the string 'rc1' is greater than 'rc')
FromRc1 == {<<"-", "r", "c", ".", "1">>, <<"-", "r", "c", ".", "1", "0">>,
            <<"-", "r", "c", "1">>}

\* the version is >= 0.35.0-rc.1
AtLeast035rc1(main, pre) ==
    \/ MainLess(<<0, 35, 0>>, main)
    \/ main = <<0, 35, 0>> /\ (pre = <<>> \/ pre \in FromRc1)

\* the shapes valid() accepts as written (whitespace around a version aside):
\* an optional 'v', and build metadata or nothing after the version
Wellformed(shape) ==
    shape[1] \in {<<>>, <<"v">>} /\ shape[4] \in {<<>>, <<"+", "b">>}

\* the shapes valid() rejects: a '=' in front, a dot behind
Illformed(shape) == shape[1] = <<"=">> \/ shape[4] = <<".">>

ArduinoCli ==
    [kind |-> "github",
     owner |-> <<"a", "r", "d", "u", "i", "n", "o">>,
     repo |-> <<"a", "r", "d", "u", "i", "n", "o", "-", "c", "l", "i">>,
     hasCommit |-> TRUE, commit |-> <<>>]

ParsedAs(shape, ret) ==
    IF Illformed(shape) THEN ret = Undefined
    ELSE IF ~Wellformed(shape) THEN TRUE
    ELSE IF AtLeast029(shape[2], shape[3])
    THEN ret.kind = "semver" /\ ret.semver.version = Plain(shape[2], shape[3])
    ELSE ret = [ArduinoCli EXCEPT !.commit = Plain(shape[2], shape[3])]

\* C8: parseSemver returns undefined for a string that is no valid version; for
\* a valid one at or above 0.29.0 a SemVer whose version is the input without
\* the 'v' (and without build metadata), and below 0.29.0, prereleases of 0.29.0
\* included, the reference arduino/arduino-cli with that version as commit.
C8_ParseSemver ==
    call.fn = "parseSemver" =>
        /\ src \in Malformed => call.ret = Undefined
        /\ \A shape \in Shapes : src = Build(shape) => ParsedAs(shape, call.ret)

\* C8 witness: 0.29.0-rc.1 was parsed to the reference with commit 0.29.0-rc.1
C8_Witness ==
    /\ call.fn = "parseSemver"
    /\ src = <<"0", ".", "2", "9", ".", "0", "-", "r", "c", ".", "1">>
    /\ call.ret = [ArduinoCli EXCEPT !.commit = src]

ReleasesUrl ==
    <<"https://github.com/", "a", "r", "d", "u", "i", "n", "o", "/",
      "a", "r", "d", "u", "i", "n", "o", "-", "c", "l", "i", "/releases">>

LocatedAs(shape, raw, ret) ==
    IF shape[4] = <<".">> THEN TRUE
    ELSE IF ~AtLeast029(shape[2], shape[3]) THEN ret.threw
    ELSE /\ ~ret.threw
         /\ ret.filename = <<"arduino-cli_">> \o Plain(shape[2], shape[3])
                           \o <<"_proto.zip">>
         /\ ret.endpoint =
               ReleasesUrl \o <<"/download/">>
               \o (IF AtLeast035rc1(shape[2], shape[3]) THEN raw
                   ELSE Plain(shape[2], shape[3]))
               \o <<"/">> \o ret.filename

\* C9: protoLocation throws below 0.29.0; otherwise the filename is
\* arduino-cli_<version>_proto.zip with the unprefixed version and the endpoint is
\* the releases URL, /download/, the tag, '/', the filename, where the tag is the
\* raw input from 0.35.0-rc.1 on and the unprefixed version before.
C9_ProtoLocation ==
    call.fn = "protoLocation" =>
        \A shape \in Shapes : src = Build(shape) => LocatedAs(shape, src, call.ret)

\* C9 witness: v0.35.0-rc.1 was located under the tag v0.35.0-rc.1
C9_Witness ==
    /\ call.fn = "protoLocation"
    /\ src = <<"v", "0", ".", "3", "5", ".", "0", "-", "r", "c", ".", "1">>
    /\ ~call.ret.threw
    /\ call.ret.endpoint[Len(ReleasesUrl) + 2] = "v"
    /\ call.ret.filename[2] = "0"

\* the inputs of RunSrcs that are versions >= 0.35.0-rc.1
PrefixedSrcs ==
    { <<"1", ".", "1", ".", "0">>, <<"v", "1", ".", "1", ".", "0">>,
      <<"1", ".", "0", ".", "4">>, <<"v", "1", ".", "0", ".", "4">>,
      <<"1", ".", "0", ".", "4", "+", "b">>,
      <<"v", "0", ".", "3", "5", ".", "0", "-", "r", "c", ".", "1">> }

\* C10 (as claimed): for a version >= 0.35.0-rc.1, typed with or without 'v',
\* the tag of the download URL starts with 'v' and the filename does not.
C10_TagAlwaysPrefixed ==
    (src \in PrefixedSrcs /\ Len(stack) >= 1) =>
        /\ stack[1].endpoint[Len(ReleasesUrl) + 2] = "v"
        /\ stack[1].filename[2] # "v"


\* C11: for owner, repo and commit of the three character classes,
\* parseGitHub(owner/repo) is exactly {owner, repo} without a commit field, and
\* parseGitHub(owner/repo#commit) is exactly {owner, repo, commit}, parts unchanged.
C11_ParseGitHubParts ==
    call.fn = "parseGitHub" =>
        /\ \A shape \in GhParts.owners \X GhParts.repos :
            src = GhBuild(shape) =>
                call.ret = [kind |-> "github", owner |-> shape[1], repo |-> shape[2],
                            hasCommit |-> FALSE, commit |-> <<>>]
        /\ \A shape \in GhParts.owners \X GhParts.repos \X GhParts.commits :
            src = GhBuild(shape) =>
                call.ret = [kind |-> "github", owner |-> shape[1], repo |-> shape[2],
                            hasCommit |-> TRUE, commit |-> shape[3]]

\* C11 witness: a-B/R-_#a#b was parsed to owner a-B, repo R-_ and commit a#b
C11_Witness ==
    /\ call.fn = "parseGitHub"
    /\ src = <<"a", "-", "B", "/", "R", "-", "_", "#", "a", "#", "b">>
    /\ call.ret.kind = "github"
    /\ call.ret.owner = <<"a", "-", "B">>
    /\ call.ret.repo = <<"R", "-", "_">>
    /\ call.ret.hasCommit /\ call.ret.commit = <<"a", "#", "b">>

\* the part of s in front of its first '#', all of s when it has none
BeforeHash(s) == CutAt(s, IndexOf(s, "#"))

\* the number of '/' in s
Slashes(s) == Cardinality({i \in 1..Len(s) : s[i] = "/"})

\* s breaks one of the rules: an owner (what stands in front of the first '/')
\* with a character outside [A-Za-z0-9-], a leading slash, in front of any '#' a
\* trailing or a second slash, whitespace anywhere, a first '#' with nothing after
Unparseable(s) ==
    \/ /\ IndexOf(s, "/") > 1
       /\ \E i \in 1..(IndexOf(s, "/") - 1) : s[i] \notin (Digit \cup Letter \cup {"-"})
    \/ Len(s) > 0 /\ s[1] = "/"
    \/ Len(BeforeHash(s)) > 0 /\ BeforeHash(s)[Len(BeforeHash(s))] = "/"
    \/ Slashes(BeforeHash(s)) >= 2
    \/ \E i \in 1..Len(s) : s[i] \in {" ", "\t", "\n"}
    \/ Len(s) > 0 /\ IndexOf(s, "#") = Len(s)

\* C12: parseGitHub returns undefined for every string that breaks one of the
\* rules of Unparseable.
C12_ParseGitHubRejects ==
    (call.fn = "parseGitHub" /\ Unparseable(src)) => call.ret = Undefined

\* C12 witness: o_/r, with '_' in the owner, was rejected, and so was o/r#
C12_Witness ==
    /\ call.fn = "parseGitHub"
    /\ src \in {<<"o", "_", "/", "r">>, <<"o", "/", "r", "#">>}
    /\ Unparseable(src)
    /\ call.ret = Undefined


\* the run is over and op is the last external operation it performed
EndedAt(op) == pc = "done" /\ Len(trace) > 0 /\ trace[Len(trace)].op = op

\* C13: a failed git clone rejects the run with the message that names
\* https://github.com/<owner>/<repo>.git; a failed checkout, after clone and fetch,
\* with another message, which names the commit (HEAD when none was given) and
\* <owner>/<repo>; neither message is ever reported for the other failure.
C13_CloneAndCheckoutErrors ==
    /\ EndedAt("git clone") =>
          result = Rejected(<<"Could not clone GitHub repository from ",
                              "https://github.com/">>
                            \o locator.owner \o <<"/">> \o locator.repo
                            \o <<".git", "\n\nReason: ", "<git error>">>)
    /\ EndedAt("git checkout") =>
          /\ result = Rejected(<<"Could not checkout commit '">>
                               \o (IF locator.hasCommit THEN locator.commit
                                   ELSE <<"HEAD">>)
                               \o <<"' in ">> \o locator.owner \o <<"/">>
                               \o locator.repo \o <<"\n\nReason: ", "<git error>">>)
          /\ At({"git clone"}) # {} /\ At({"git fetch"}) # {}
    /\ HasAtom(result.msg, "Could not clone GitHub repository from ")
          => EndedAt("git clone")
    /\ HasAtom(result.msg, "Could not checkout commit '") => EndedAt("git checkout")

\* C13 witness: for o-1/r_.#c/1 clone and fetch succeeded, checkout of c/1 failed
C13_Witness ==
    /\ src = <<"o", "-", "1", "/", "r", "_", ".", "#", "c", "/", "1">>
    /\ EndedAt("git checkout")
    /\ result.kind = "rejected"
    /\ At({"git fetch"}) # {}


\* the release-not-found error for a version
ReleaseNotFound(version) ==
    Rejected(<<"Could not found release for version '">> \o version
             \o <<"'. Check the release page of the Arduino CLI for available versions: ">>
             \o ReleasesUrl)

\* C14: when the first request of download(v) is answered with 404, the run is
\* rejected at once with the error that names the version of v and the releases
\* page, and a run that is over issues no further request.
C14_ReleaseNotFound ==
    [][/\ (\E location \in BOOLEAN : GetLocationWith(404, location))
            => (pc' = "done" /\ result' = ReleaseNotFound(top.semver.version))
       /\ pc = "done" => trace' = trace]_vars

\* C14 witness: v1.1.0 was answered with 404: one request, and the error names 1.1.0
C14_Witness ==
    /\ src = <<"v", "1", ".", "1", ".", "0">>
    /\ pc = "done"
    /\ result = ReleaseNotFound(<<"1", ".", "1", ".", "0">>)
    /\ Cardinality(At({"GET"})) = 1


\* the asset of release 1.0.4
V104Url ==
    ReleasesUrl \o <<"/download/", "v", "1", ".", "0", ".", "4", "/", "arduino-cli_",
                     "1", ".", "0", ".", "4", "_proto.zip">>

\* the trace holds, in this order: the request for the 1.0.4 asset, a temporary
\* directory other than the one of the handle, the extraction into its rpc/, the
\* copy of its rpc/google to rpc/google of the handle, and the call of its dispose
Patched ==
    \E g \in At({"GET"}), d \in At({"dir"}), x \in At({"extract"}), c \in At({"cp"}) :
        /\ g < d /\ d < x /\ x < c /\ c < Len(trace)
        /\ trace[g].arg = V104Url
        /\ trace[d].arg # handle.path
        /\ trace[x].arg = trace[d].arg \o <<"/rpc">>
        /\ trace[c].arg = trace[d].arg \o <<"/rpc", "/google", " -> ">>
                          \o handle.path \o <<"/rpc", "/google">>
        /\ trace[c + 1] = Event("rimraf", trace[d].arg)

Is104 == locator.semver.version = <<"1", ".", "0", ".", "4">>

\* C15: download returns a handle for a version other than 1.0.4, older or newer,
\* only after release 1.0.4 was downloaded by the same operation and its google/
\* was copied over google/ of the target, and of nothing else; when the nested
\* download or the copy fails no handle is returned and the run is rejected; for
\* 1.0.4 itself there is one download and no copy.
C15_GooglePatch ==
    locator.kind = "semver" =>
        /\ (handle.kind = "handle" /\ ~Is104) =>
              Patched /\ Cardinality(At({"cp"})) = 1
        /\ Is104 => /\ At({"cp"}) = {}
                    /\ Cardinality(At({"dir"})) <= 1
                    /\ Cardinality(At({"GET"})) <= 2
        /\ (pc = "done" /\ handle.kind # "handle") => result.kind = "rejected"
        /\ EndedAt("cp") => handle.kind # "handle"

\* C15 witness: 1.1.0, newer than 1.0.4, returned a handle after the copy
C15_Witness ==
    /\ src = <<"1", ".", "1", ".", "0">>
    /\ handle.kind = "handle"
    /\ Patched


\* C16 (as claimed): once download has returned the handle of a version other than
\* 1.0.4, dispose of the nested 1.0.4 handle was called exactly once, after the
\* copy, and the nested temporary directory is gone.
C16_NestedRemovedBeforeReturn ==
    (locator.kind = "semver" /\ handle.kind = "handle" /\ ~Is104) =>
        \A d \in At({"dir"}) :
            trace[d].arg # handle.path =>
                /\ Cardinality({i \in At({"rimraf"}) : trace[i].arg = trace[d].arg}) = 1
                /\ \A i \in At({"rimraf"}), c \in At({"cp"}) :
                       trace[i].arg = trace[d].arg => c < i
                /\ trace[d].arg \notin tmp


\* the creation of the output directory was attempted and failed
MkdirFailed ==
    At({"mkdir"}) # {} /\ At({"protoc"}) = {} /\ pc \in {"finally", "disposing", "done"}

CreateFailed ==
    Rejected(<<"Failed to create '--out' ", "./src-gen", ": ", "<fs error>">>)

\* C17 (as claimed): the generator runs only after the output directory was
\* created and exists; when the creation fails the generator is not spawned, an
\* acquired handle is still disposed, and the run fails with the error that wraps
\* the error of the file system.
C17_OutputDirBeforeGenerator ==
    /\ \A i \in At({"protoc"}) : outFs = "dir" /\ \E j \in At({"mkdir"}) : j < i
    /\ (MkdirFailed /\ pc = "done") =>
          /\ result = CreateFailed
          /\ handle.kind = "handle" => DisposeCalls = 1


C19_RunSettles == pc = "hung" => ENABLED Next

\* the options of ts_proto as one string: key=value entries joined by commas, the
\* array of outputServices as one entry per element
TsProtoOpt ==
    <<"outputServices", "=", "nice-grpc", ",",
      "outputServices", "=", "generic-definitions", ",",
      "oneof", "=", "unions", ",",
      "useExactTypes", "=", "false", ",",
      "paths", "=", "source_relative", ",",
      "esModuleInterop", "=", "true", ",",
      "exportCommonSymbols", "=", "false", ",",
      "useOptionals", "=", "none">>

\* the files that discovery found for this run: under src, or under the rpc
\* directory of the handle
Discovered == IF handle.kind = "handle" THEN gen.protos ELSE protos.files

ProtoDir == IF handle.kind = "handle" THEN handle.path \o <<"/rpc">> ELSE src

\* C20: protoc is given exactly --plugin=<path>, --proto_path=<directory>,
\* --ts_proto_opt=<options> and --ts_proto_out=<out>, in this order, then every
\* discovered proto file once and nothing more.
C20_GeneratorArguments ==
    \A i \in At({"protoc"}) :
        /\ SubSeq(trace[i].arg, 1, 4) =
              << <<"--plugin=", "<ts-proto>/protoc-gen-ts_proto">>,
                 <<"--proto_path=">> \o ProtoDir,
                 <<"--", "ts_proto", "_opt=">> \o TsProtoOpt,
                 <<"--", "ts_proto", "_out=", "./src-gen">> >>
        /\ Len(trace[i].arg) = 4 + Len(Discovered)
        /\ \A k \in 1..Len(Discovered) : trace[i].arg[4 + k] = Discovered[k]
        /\ \A k, l \in 5..Len(trace[i].arg) :
              trace[i].arg[k] = trace[i].arg[l] => k = l

\* C20 witness: protoc ran on the two proto files of a downloaded release
C20_Witness ==
    /\ At({"protoc"}) # {}
    /\ handle.kind = "handle"
    /\ locator.kind = "semver"
    /\ Len(gen.protos) = 2
    /\ \A i \in At({"protoc"}) : Len(trace[i].arg) = 6


\* C21: every request uses the value https_proxy has when the request is issued:
\* a proxy when it is set and not empty, a direct connection when it is unset or
\* empty, also for the redirect request after the variable was changed.
C21_ProxyPerRequest ==
    [][(Len(trace') > Len(trace) /\ trace'[Len(trace')].op = "GET") =>
          IF env.set /\ env.value # <<>>
          THEN /\ Len(trace') = Len(trace) + 2
               /\ trace'[Len(trace') - 1] = Event("proxy", env.value)
          ELSE Len(trace') = Len(trace) + 1]_vars

\* C21 witness: the first request went through the proxy, the variable was then
\* unset, and the redirect request connected directly
C21_Witness ==
    /\ ~env.set
    /\ \E i \in At({"GET"}) :
        /\ i > 1 /\ trace[i - 1] = Event("proxy", <<"http://proxy:8080">>)
        /\ i < Len(trace) /\ trace[i + 1].op = "GET"


\* the status codes as text
StatusText(status) ==
    CASE status = 200 -> <<"2", "0", "0">>
      [] status = 302 -> <<"3", "0", "2">>
      [] status = 404 -> <<"4", "0", "4">>
      [] status = 500 -> <<"5", "0", "0">>

UnexpectedStatus(actual, expected) ==
    Rejected(<<"unexpected status code. was ">> \o StatusText(actual)
             \o <<", expected ">> \o StatusText(expected))

\* C22: the asset request is issued only after the first request was answered
\* with 302 and a Location header, and the archive is written only after the
\* asset request was answered with 200; another first status than 302 and 404 and
\* another second status than 200 reject with the unexpected-status error of the
\* actual and the expected code, a 302 without Location with the missing-location
\* error.
C22_TwoHops ==
    [][/\ \A status \in {200, 302, 404, 500}, location \in BOOLEAN :
            GetLocationWith(status, location) =>
                IF status = 302 /\ location THEN pc' = "dl_get2" /\ result' = result
                ELSE /\ pc' = "done"
                     /\ status = 302 =>
                          result' = Rejected(<<"no location header was found: ",
                                               "<headers>">>)
                     /\ status \notin {302, 404} =>
                          result' = UnexpectedStatus(status, 302)
       /\ \A status \in {200, 302, 404, 500} :
            GetAssetWith(status) =>
                IF status = 200 THEN pc' = "dl_dir" /\ result' = result
                ELSE pc' = "done" /\ result' = UnexpectedStatus(status, 200)
       /\ (pc' = "dl_get2" /\ pc # "dl_get2") => GetLocationWith(302, TRUE)
       /\ (Len(trace') > Len(trace) /\ trace'[Len(trace')] = Event("GET", <<"<location>">>))
            => pc = "dl_get2"
       /\ (pc' = "dl_dir" /\ pc # "dl_dir") => GetAssetWith(200)
       /\ (Len(trace') > Len(trace) /\ trace'[Len(trace')].op = "write")
            => (pc = "dl_write" /\ At({"dir"}) # {})
       /\ (pc' = "dl_write" /\ pc # "dl_write") => pc = "dl_dir"]_vars

\* C22 witness: the first request was redirected and the asset request was
\* answered with 500
C22_Witness ==
    /\ pc = "done"
    /\ Cardinality(At({"GET"})) = 2
    /\ result = UnexpectedStatus(500, 200)


\* C23: clone runs git clone, git fetch and git checkout in this order, each
\* right after the one before it and at most once; a failed clone or fetch ends
\* the run rejected with nothing after it; the ref checked out is the commit of
\* the reference, HEAD when it has none.
C23_CloneFetchCheckout ==
    /\ \A i \in At({"git clone"}) : i > 1 /\ trace[i - 1].op = "dir"
    /\ \A i \in At({"git fetch"}) : i > 1 /\ trace[i - 1].op = "git clone"
    /\ \A i \in At({"git checkout"}) :
          /\ i > 1 /\ trace[i - 1].op = "git fetch"
          /\ trace[i].arg = IF locator.hasCommit THEN locator.commit ELSE <<"HEAD">>
    /\ \A op \in {"git clone", "git fetch", "git checkout"} : Cardinality(At({op})) <= 1
    /\ (EndedAt("git clone") \/ EndedAt("git fetch")) =>
          /\ result.kind = "rejected"
          /\ handle = NoHandle
          /\ At({"git checkout"}) = {}
    /\ handle.kind = "handle" /\ locator.kind = "github" => At({"git checkout"}) # {}

\* C23 witness: o/r, without commit, was cloned, fetched and checked out at HEAD
C23_Witness ==
    /\ src = <<"o", "/", "r">>
    /\ handle.kind = "handle"
    /\ \E i \in At({"git checkout"}) : trace[i].arg = <<"HEAD">>


\* the decision the settled checks call for, whatever their order
Blocked == ~force /\ outExists

Local == ~Blocked /\ srcProtos.found /\ Len(srcProtos.files) > 0

\* C24: the access check and the local discovery are both started at once and
\* neither waits for the other; nothing is decided before both have settled;
\* their results, and with them the decision, do not depend on which settled
\* first.
C24_ConcurrentChecks ==
    /\ (pc = "await_all" /\ ~accessDone) => ENABLED AccessOut
    /\ (pc = "await_all" /\ ~globDone) => ENABLED GlobSrc
    /\ pc = "await_all" =>
          /\ result = NoResult /\ locator = Unparsed /\ gen = NoGen
          /\ At({"access", "glob"}) = 1..Len(trace)
          /\ accessDone => outExists = (outFs # "missing")
    /\ globDone => protos = srcProtos
    /\ pc # "await_all" =>
          /\ accessDone /\ globDone
          /\ {trace[1].op, trace[2].op} = {"access", "glob"}
          /\ Blocked => pc = "done" /\ result.kind = "rejected" /\ Len(trace) = 2
          /\ Local => gen.src = src /\ gen.protos = srcProtos.files /\ locator = Unparsed
          /\ (~Blocked /\ ~Local) => locator # Unparsed

\* C24 witness: the discovery settled before the access check, and the run went
\* on to parse src
C24_Witness ==
    /\ pc = "parsed"
    /\ trace[1].op = "glob" /\ trace[2].op = "access"


\* the operations a run spawns or executes
Spawned == {"protoc", "git clone", "git fetch", "git checkout"}

\* the request of a redirect target, whose URL the first response names
IsRedirected(i) == trace[i] = Event("GET", <<"<location>">>)

\* C25: nothing is retried: the generator, git clone, git fetch and git checkout
\* each run at most once; no release endpoint is requested twice, and each
\* redirect target is requested once, right after the endpoint that named it.
C25_NoRetry ==
    /\ \A op \in Spawned : Cardinality(At({op})) <= 1
    /\ \A i, j \in At({"GET"}) :
          (i # j /\ trace[i].arg = trace[j].arg) => IsRedirected(i)
    /\ \A i \in At({"GET"}) :
          IsRedirected(i) =>
             \E j \in At({"GET"}) :
                /\ j < i /\ ~IsRedirected(j)
                /\ \A k \in At({"GET"}) : ~(j < k /\ k < i)

\* C25 witness: a run that failed on its fourth request
C25_Witness ==
    /\ pc = "done" /\ result.kind = "rejected"
    /\ Cardinality(At({"GET"})) = 4


\* the three variants of a locator, each with its own fields
IsVariant(l) ==
    \/ l.kind = "semver" /\ DOMAIN l = {"kind", "semver"}
    \/ l.kind = "github" /\ DOMAIN l = {"kind", "owner", "repo", "hasCommit", "commit"}
    \/ l = Undefined

\* C26: a resolved locator is exactly one of release version, source reference
\* and invalid; a valid semantic version is resolved by parseSemver alone, to the
\* version or to the arduino/arduino-cli reference, and never matches the
\* owner/repo pattern; trying the pattern first gives the same locator.
C26_OneVariant ==
    call.fn = "semverOrGitHub" =>
        /\ IsVariant(call.ret)
        /\ valid(src) =>
              /\ parseGitHub(src) = Undefined
              /\ call.ret = parseSemver(src)
              /\ \/ call.ret = [kind |-> "semver", semver |-> NewSemVer(src, TRUE)]
                 \/ /\ call.ret.kind = "github"
                    /\ call.ret.owner = arduinoOwner /\ call.ret.repo = arduinoRepo
                    /\ call.ret.commit = NewSemVer(src, TRUE).version
        /\ call.ret = orElse(parseGitHub(src), parseSemver(src))

\* C26 witness: a valid version older than the published protos, resolved to the
\* arduino/arduino-cli reference
C26_Witness ==
    /\ call.fn = "semverOrGitHub"
    /\ valid(src)
    /\ call.ret.kind = "github"


\* the two errors of protoLocation
LocationErrors == {<<"invalid semver ">>, <<"semver must be '>=0.29.0' it was ">>}

\* a valid version below 0.29.0
TooOld(s) == valid(s) /\ ~canDownloadProtos(NewSemVer(s, TRUE))

\* C27: download is entered only with a valid version of at least 0.29.0, the
\* nested acquisition included; a version below 0.29.0 is routed to the clone of
\* arduino/arduino-cli and requests nothing; the run never fails with one of
\* the two errors of protoLocation.
C27_DownloadOnlyPublished ==
    /\ \A i \in 1..Len(stack) :
          /\ validSemVer(stack[i].semver)
          /\ canDownloadProtos(stack[i].semver)
    /\ result.kind = "rejected" =>
          \A e \in LocationErrors : SubSeq(result.msg, 1, 1) # e
    /\ (TooOld(src) /\ locator # Unparsed) =>
          /\ locator = [kind |-> "github", owner |-> arduinoOwner, repo |-> arduinoRepo,
                        hasCommit |-> TRUE, commit |-> NewSemVer(src, TRUE).version]
          /\ At({"GET"}) = {}
          /\ pc \notin {"parsed", "done"} => cl.gh = locator

\* C27 witness: a version below 0.29.0 whose run has cloned arduino/arduino-cli
C27_Witness ==
    /\ TooOld(src)
    /\ At({"git clone"}) # {}
    /\ cl.gh.owner = arduinoOwner


\* C28: the nested acquisition is of 1.0.4 and starts no further one: downloads
\* nest at most two deep, and a run makes at most two downloads, four requests
\* and two temporary directories.
C28_BoundedRecursion ==
    /\ Len(stack) <= 2
    /\ Len(stack) = 2 =>
          /\ stack[1].semver.version # v104
          /\ stack[2].semver.version = v104
          /\ pc = "dl_patch" => ~ENABLED NestedDownload
    /\ Cardinality({i \in At({"GET"}) : ~IsRedirected(i)}) <= 2
    /\ Cardinality(At({"GET"})) <= 4
    /\ Cardinality(At({"dir"})) <= 2
    /\ nTmp <= 2 /\ Cardinality(tmp) <= 2

\* C28 witness: the nested acquisition of 1.0.4 has extracted its archive, after
\* four requests and in the second temporary directory
C28_Witness ==
    /\ Len(stack) = 2 /\ pc = "dl_patch"
    /\ Cardinality(At({"GET"})) = 4
    /\ nTmp = 2


\* how the messages of the failed hops begin
HopErrors ==
    {<<"Could not found release for version '">>, <<"unexpected status code. was ">>,
     <<"no location header was found: ">>}

\* the run failed in one of the two hops of the requested version
HopFailed ==
    /\ pc = "done" /\ result.kind = "rejected"
    /\ SubSeq(result.msg, 1, 1) \in HopErrors
    /\ Cardinality({i \in At({"GET"}) : ~IsRedirected(i)}) = 1

\* C29: the temporary directory of a download, and the archive in it, are created
\* only after the endpoint answered and the redirect target answered; a run that
\* fails in a hop of the requested version (404, unexpected status, no Location)
\* has created no temporary directory and written no archive.
C29_NothingBeforeBothHops ==
    locator.kind = "semver" =>
        /\ (Len(stack) = 1 /\ pc \in {"dl_get1", "dl_get2"}) =>
              nTmp = 0 /\ tmp = {} /\ At({"dir", "write"}) = {}
        /\ \A d \in At({"dir", "write"}) :
              \E i, j \in At({"GET"}) :
                 i < j /\ j < d /\ ~IsRedirected(i) /\ IsRedirected(j)
        /\ HopFailed => nTmp = 0 /\ tmp = {} /\ At({"dir", "write"}) = {}

\* C29 witness: the endpoint of the requested version redirected without a
\* Location header
C29_Witness ==
    /\ HopFailed
    /\ result = Rejected(<<"no location header was found: ", "<headers>">>)
    /\ nTmp = 0


\* C30: as long as generate(protoPath, protos, out) has not been called, no step
\* creates the output directory or changes what is at its path, and neither
\* mkdir nor the generator has run: a run that fails with OutputExists, on an
\* invalid src, or in clone or download leaves the output as it was.
C30_OutputUntouched ==
    [][/\ gen = NoGen => At(Generating) = {}
       /\ gen' = NoGen => (outFs' = outFs /\ At(Generating)' = {})]_vars

\* C30 witness: with no output directory, the run failed in git fetch and there
\* is still none
C30_Witness ==
    /\ pc = "done" /\ result.kind = "rejected"
    /\ gen = NoGen
    /\ EndedAt("git fetch")
    /\ outFs = "missing"


====
